---- MODULE Spec2Model ----
(***************************************************************************)
(* The two training notebooks of the repository, as one state machine:     *)
(*   src/topomodelx/notebooks/hypergraph/unigcnii_train.ipynb  (UniGCNII)  *)
(*   src/unnamed/part_000                                      (UniSAGE)   *)
(* Each notebook is a linear script of cells over one kernel state:        *)
(* hypergraph lifting (neighbourhoods, deduplication), the incidence       *)
(* matrix with its two assertions, the Network, and the training loop.     *)
(* The lifting and incidence cells are the same text in both notebooks.    *)
(* The statistics cell and the list epoch_loss of the UniSAGE loop feed     *)
(* print statements only and are left out.                                 *)
(***************************************************************************)
EXTENDS Integers, Sequences, FiniteSets, TLC

VARIABLES
    notebook,               \* "unigcnii" or "unisage"; "either" in the cells
                            \* that are the same text in both notebooks
    num_nodes,              \* data.num_nodes (= x_0s.shape[0])
    data_edge_index,        \* data.edge_index: sequence of <<source, target>>
    y,                      \* data.y: the class of each node
    train_mask,             \* data.train_mask
    val_mask,               \* data.val_mask
    test_mask,              \* data.test_mask
    edge_index,             \* the notebook's own name edge_index
    one_hop_neighborhoods,  \* list of neighbour arrays, one per node
    unique_hyperedges,      \* set of sorted tuples seen so far
    hyperedges,             \* list of distinct sorted neighbourhoods
    incidence_1,            \* unset, dense numpy array, or sparse COO tensor
    error,                  \* message of the exception that stopped the run
    pc,                     \* the cell / statement about to run
    runs,                   \* how many times the lifting cells have been run
    prev_hyperedges,        \* hyperedges produced by the previous run
    prev_incidence,         \* incidence_1 produced by the previous run
    out_channels,           \* number of distinct labels (0: not computed)
    task_level,             \* "graph" or "node" ("none": not computed)
    out_pool,               \* model.out_pool
    mode,                   \* model.training: "none" (no model), "train", "eval"
    params,                 \* number of updates the parameters have received
    grad,                   \* epochs whose backward pass is accumulated in .grad
    applied,                \* per optimizer step: the epoch and the gradient used
    epoch,                  \* the loop variable (epoch / epoch_i)
    it,                     \* number of loop iterations started
    ip,                     \* index of the next statement of the block
    y_hat,                  \* last forward pass: parameters and mode it ran with
    loss,                   \* the name loss
    reports,                \* the evaluation reports printed so far
    ops                     \* statements executed so far in the current epoch

vars == << notebook, num_nodes, data_edge_index, y, train_mask, val_mask,
           test_mask, edge_index, one_hop_neighborhoods, unique_hyperedges,
           hyperedges, incidence_1, error, pc, runs, prev_hyperedges,
           prev_incidence, out_channels, task_level, out_pool, mode, params,
           grad, applied, epoch, it, ip, y_hat, loss, reports, ops >>

liftVars == << edge_index, one_hop_neighborhoods, unique_hyperedges,
               hyperedges, incidence_1, error, runs, prev_hyperedges,
               prev_incidence >>

trainVars == << mode, params, grad, applied, epoch, it, ip, y_hat, loss,
                reports, ops >>

dataVars == << num_nodes, data_edge_index, y, train_mask, val_mask,
              test_mask >>

networkVars == << out_channels, task_level, out_pool >>

inputVars == << notebook, dataVars, networkVars >>

----------------------------------------------------------------------------
(* Bounds of the model. *)

NumNodes == 3     \* nodes of the graph
MaxEdges == 3     \* entries of an arbitrary (directed) edge list
MaxPairs == 2     \* node pairs of an edge list stored in both directions

MaxClasses == 2   \* distinct label values of a labelling

(* Program constants. *)
num_epochs == 5
test_interval == 5
hidden_channels == 128

Notebooks == {"unigcnii", "unisage"}
LossValues == {0, 1}

Nodes(n) == 0 .. (n - 1)

EdgeLists(n, maxLen) ==
    UNION { [1 .. k -> Nodes(n) \X Nodes(n)] : k \in 0 .. maxLen }

\* an edge list followed by the reverse of each of its entries: the way an
\* undirected graph is stored
BothDirections(b) == b \o [i \in 1 .. Len(b) |-> << b[i][2], b[i][1] >>]

\* the edge lists the model runs on
Inputs ==
    EdgeLists(NumNodes, MaxEdges)
        \cup { BothDirections(b) : b \in EdgeLists(NumNodes, MaxPairs) }

\* labels with more than one class, as the benchmark's are
BenchmarkLabels(n) == [i \in Nodes(n) |-> i % 2]

\* every labelling of n nodes
Labellings(n) == [Nodes(n) -> 0 .. (MaxClasses - 1)]

\* the 5-node ring of the end-to-end scenario, each edge in both directions,
\* in every order of the two directions
RingEdges == << <<0, 1>>, <<1, 2>>, <<2, 3>>, <<3, 4>>, <<4, 0>> >>

RingNodes == Len(RingEdges)

RingList(first) ==
    [i \in 1 .. 2 * Len(RingEdges) |->
        LET e == RingEdges[(i + 1) \div 2]
        IN  IF (i % 2 = 1) = first[(i + 1) \div 2]
            THEN e ELSE << e[2], e[1] >>]

RingInputs ==
    { RingList(first) : first \in [1 .. Len(RingEdges) -> BOOLEAN] }
        \cup { BothDirections(RingEdges) }

----------------------------------------------------------------------------
(* Pure functions of the lifting cells. *)

Range(s) == { s[i] : i \in 1 .. Len(s) }

\* Lexicographic order on edges, the order coalesce() sorts by.
EdgeLess(a, b) == a[1] < b[1] \/ (a[1] = b[1] /\ a[2] < b[2])

RECURSIVE SortEdges(_)
SortEdges(S) ==
    IF S = {} THEN << >>
    ELSE LET m == CHOOSE a \in S : \A b \in S \ {a} : EdgeLess(a, b)
         IN  << m >> \o SortEdges(S \ {m})

\* torch_geometric.utils.to_undirected: both directions of every edge,
\* coalesced (sorted, duplicates removed).
to_undirected(ei) ==
    SortEdges(Range(ei) \cup { << e[2], e[1] >> : e \in Range(ei) })

\* ei[1, ei[0] == node]: the targets of the edges whose source is node,
\* in the order of the edge list, one entry per edge.
Neighbors(ei, node) ==
    LET sel == SelectSeq(ei, LAMBDA e : e[1] = node)
    IN  [i \in 1 .. Len(sel) |-> sel[i][2]]

RECURSIVE CollectNeighborhoods(_, _, _, _)
CollectNeighborhoods(ei, node, n, acc) ==
    IF node >= n THEN acc
    ELSE CollectNeighborhoods(ei, node + 1, n, Append(acc, Neighbors(ei, node)))

\* insertion of x into a sorted sequence, after the entries <= x
RECURSIVE InsertSorted(_, _)
InsertSorted(x, s) ==
    IF s = << >> THEN << x >>
    ELSE IF x < Head(s) THEN << x >> \o s
    ELSE << Head(s) >> \o InsertSorted(x, Tail(s))

\* Python's sorted() on a list of integers: same entries, ascending, with
\* repeated entries kept.
RECURSIVE sorted(_)
sorted(s) ==
    IF s = << >> THEN << >>
    ELSE InsertSorted(s[Len(s)], sorted(SubSeq(s, 1, Len(s) - 1)))

NotSeenAlways(neighborhood, unique) == TRUE

NotSeenInverted(neighborhood, unique) == neighborhood \in unique

\* "if neighborhood not in unique_hyperedges"
NotSeen(neighborhood, unique) == neighborhood \notin unique

KeptHyperedges == hyperedges

\* "hyperedges = []"
InitialHyperedges == << >>

\* The deduplication loop from position i on; st = [unique, hyperedges].
RECURSIVE DedupLoop(_, _, _)
DedupLoop(nbhds, i, st) ==
    IF i > Len(nbhds) THEN st
    ELSE LET neighborhood == sorted(nbhds[i])
         IN  IF NotSeen(neighborhood, st.unique)
             THEN DedupLoop(nbhds, i + 1,
                      [unique |-> st.unique \cup {neighborhood},
                       hyperedges |-> Append(st.hyperedges, neighborhood)])
             ELSE DedupLoop(nbhds, i + 1, st)

----------------------------------------------------------------------------
(* Pure functions of the incidence-matrix cell. Rows are node indices,     *)
(* columns are 0-based positions in hyperedges, as enumerate() counts.     *)

\* np.zeros((rows, cols))
Zeros(rows, cols) == [r \in Nodes(rows) |-> [c \in 0 .. (cols - 1) |-> 0]]

SetEntryTransposed(m, row, col) ==
    IF col \in DOMAIN m /\ row \in DOMAIN m[col]
    THEN [m EXCEPT ![col][row] = 1]
    ELSE m

\* "incidence_1[row, col] = 1"
SetEntry(m, row, col) == [m EXCEPT ![row][col] = 1]

\* "for row in neighibourhood", from position k on
RECURSIVE FillRows(_, _, _, _)
FillRows(m, neighbourhood, k, col) ==
    IF k > Len(neighbourhood) THEN m
    ELSE FillRows(SetEntry(m, neighbourhood[k], col), neighbourhood, k + 1, col)

\* "for col, neighibourhood in enumerate(hyperedges)", from column col on
RECURSIVE FillCols(_, _, _)
FillCols(m, hes, col) ==
    IF col >= Len(hes) THEN m
    ELSE FillCols(FillRows(m, hes[col + 1], 1, col), hes, col + 1)

\* the dense array after the two loops
DenseIncidence(rows, hes) ==
    [kind |-> "dense", rows |-> rows, cols |-> Len(hes),
     dense |-> FillCols(Zeros(rows, Len(hes)), hes, 0), indices |-> {}]

RECURSIVE SumColumn(_, _, _, _)
SumColumn(m, c, r, rows) ==
    IF r >= rows THEN 0 ELSE m[r][c] + SumColumn(m, c, r + 1, rows)

RECURSIVE SumRow(_, _, _, _)
SumRow(m, r, c, cols) ==
    IF c >= cols THEN 0 ELSE m[r][c] + SumRow(m, r, c + 1, cols)

ColumnsCheckedNever(inc) == TRUE

\* "all(incidence_1.sum(0) > 0) == True"
ColumnsNonEmpty(inc) ==
    \A c \in 0 .. (inc.cols - 1) : SumColumn(inc.dense, c, 0, inc.rows) > 0

RowsCheckedNever(inc) == TRUE

\* "all(incidence_1.sum(1) > 0) == True"
RowsCovered(inc) ==
    \A r \in Nodes(inc.rows) : SumRow(inc.dense, r, 0, inc.cols) > 0

\* torch.Tensor(incidence_1).to_sparse_coo(): the shape and the coordinates
\* of the non-zero entries.
to_sparse_coo(inc) ==
    [kind |-> "sparse", rows |-> inc.rows, cols |-> inc.cols, dense |-> << >>,
     indices |-> { rc \in Nodes(inc.rows) \X (0 .. (inc.cols - 1)) :
                     inc.dense[rc[1]][rc[2]] # 0 }]

Unset == [kind |-> "unset", rows |-> 0, cols |-> 0, dense |-> << >>,
          indices |-> {}]

----------------------------------------------------------------------------
(* The Network and the cell that builds it. Tensors are modelled by their  *)
(* shapes.                                                                 *)

\* torch.unique(y).shape[0]
NumUnique(labels) == Cardinality({ labels[n] : n \in DOMAIN labels })

\* "graph" if out_channels == 1 else "node"
TaskLevel(oc) == IF oc = 1 THEN "graph" ELSE "node"

\* True if task_level == "graph" else False
OutPool(tl) == tl = "graph"

\* torch.max(x_0, dim=0)[0]: the first dimension is reduced away
MaxPool(shape) == Tail(shape)

\* self.linear(x): the last dimension becomes out
Linear(shape, out) == [shape EXCEPT ![Len(shape)] = out]

NetworkForwardAlwaysPooled(pool, n, out) ==
    Linear(MaxPool(<< n, hidden_channels >>), out)

\* Network.forward: the shape of its result for n nodes
NetworkForward(pool, n, out) ==
    LET x_0 == << n, hidden_channels >>
        x == IF pool THEN MaxPool(x_0) ELSE x_0
    IN  Linear(x, out)

\* y_hat[mask]: a boolean mask over the nodes indexes the first dimension,
\* which must have one entry per node
MaskFits(shape, n) == shape[1] = n

----------------------------------------------------------------------------
(* The training loops. *)

TrainBodyResetFirst(nb) ==
    << "train", "zero_grad", "forward", "loss", "backward", "step" >>

TrainBodyNoTrainCall(nb) ==
    IF nb = "unigcnii"
    THEN << "forward", "loss", "backward", "step", "zero_grad" >>
    ELSE << "zero_grad", "forward", "loss", "backward", "step" >>

TrainBodyNoReset(nb) ==
    << "train", "forward", "loss", "backward", "step" >>

\* The statements of one epoch, in source order.
TrainBody(nb) ==
    IF nb = "unigcnii"
    THEN << "train", "forward", "loss", "backward", "step", "zero_grad" >>
    ELSE << "train", "zero_grad", "forward", "loss", "backward", "step" >>

ReportBodyWithBackward == << "eval", "eval_forward", "backward", "report" >>

\* The statements of the evaluation block, in source order.
ReportBody == << "eval", "eval_forward", "report" >>

EpochRangeOneMore(nb) ==
    IF nb = "unigcnii" THEN [i \in 1 .. (num_epochs + 1) |-> i - 1]
    ELSE [i \in 1 .. (num_epochs + 1) |-> i]

\* range(num_epochs) in the UniGCNII notebook, range(1, num_epochs + 1) in
\* the UniSAGE notebook.
EpochRange(nb) ==
    IF nb = "unigcnii" THEN [i \in 1 .. num_epochs |-> i - 1]
    ELSE [i \in 1 .. num_epochs |-> i]

ReportDueOneBased(e) == (e + 1) % test_interval = 0

\* "if epoch % test_interval == 0"
ReportDue(e) == e % test_interval = 0

----------------------------------------------------------------------------
(* Initial states: the kernel after the data cell. *)

InitKernel ==
    /\ train_mask = [i \in Nodes(num_nodes) |-> i = 0]
    /\ val_mask = [i \in Nodes(num_nodes) |-> i = 1]
    /\ test_mask = [i \in Nodes(num_nodes) |-> i >= 2]
    /\ out_channels = 0
    /\ task_level = "none"
    /\ out_pool = FALSE
    /\ edge_index = data_edge_index
    /\ one_hop_neighborhoods = << >>
    /\ unique_hyperedges = {}
    /\ hyperedges = << >>
    /\ incidence_1 = Unset
    /\ error = ""
    /\ pc = "lift"
    /\ runs = 0
    /\ prev_hyperedges = << >>
    /\ prev_incidence = Unset
    /\ mode = "none"
    /\ params = 0
    /\ grad = << >>
    /\ applied = << >>
    /\ epoch = -1
    /\ it = 0
    /\ ip = 0
    /\ y_hat = [params |-> 0, mode |-> "none", shape |-> << >>]
    /\ loss = -1
    /\ reports = << >>
    /\ ops = << >>

Init ==
    /\ notebook = "either"
    /\ num_nodes = NumNodes
    /\ data_edge_index \in Inputs
    /\ y = BenchmarkLabels(num_nodes)
    /\ InitKernel

InitRing ==
    /\ notebook = "either"
    /\ num_nodes = RingNodes
    /\ data_edge_index \in RingInputs
    /\ y = BenchmarkLabels(num_nodes)
    /\ InitKernel

\* the ring with every labelling of its nodes
InitTask ==
    /\ notebook = "either"
    /\ num_nodes = RingNodes
    /\ data_edge_index = BothDirections(RingEdges)
    /\ y \in Labellings(num_nodes)
    /\ InitKernel

----------------------------------------------------------------------------
(* The lifting cell: to_undirected, the neighbourhood loop, the            *)
(* deduplication loop.                                                     *)

LiftCell ==
    /\ pc = "lift"
    /\ edge_index' = to_undirected(edge_index)
    /\ one_hop_neighborhoods' =
           CollectNeighborhoods(data_edge_index, 0, num_nodes, << >>)
    /\ LET st == DedupLoop(one_hop_neighborhoods', 1,
                     [unique |-> {}, hyperedges |-> InitialHyperedges])
       IN  /\ unique_hyperedges' = st.unique
           /\ hyperedges' = st.hyperedges
    /\ runs' = runs + 1
    /\ pc' = "incidence"
    /\ UNCHANGED << incidence_1, error, prev_hyperedges, prev_incidence >>
    /\ UNCHANGED inputVars
    /\ UNCHANGED trainVars

(* The incidence cell: the dense matrix, the two assertions, the sparse    *)
(* conversion. A failed assertion leaves the dense array in incidence_1.   *)

IncidenceCell ==
    /\ pc = "incidence"
    /\ LET inc == DenseIncidence(num_nodes, hyperedges)
       IN  IF ~ColumnsNonEmpty(inc)
           THEN /\ incidence_1' = inc
                /\ error' = "Some hyperedges are empty"
                /\ pc' = "halted"
           ELSE IF ~RowsCovered(inc)
           THEN /\ incidence_1' = inc
                /\ error' = "Some nodes are not in any hyperedges"
                /\ pc' = "halted"
           ELSE /\ incidence_1' = to_sparse_coo(inc)
                /\ error' = error
                /\ pc' = "network"
    /\ UNCHANGED << edge_index, one_hop_neighborhoods, unique_hyperedges,
                    hyperedges, runs, prev_hyperedges, prev_incidence >>
    /\ UNCHANGED inputVars
    /\ UNCHANGED trainVars

(* The lifting and incidence cells are run a second time on the same       *)
(* kernel, before the later cells.                                         *)

RerunLifting ==
    /\ pc = "network"
    /\ runs = 1
    /\ prev_hyperedges' = hyperedges
    /\ prev_incidence' = incidence_1
    /\ pc' = "lift"
    /\ UNCHANGED << edge_index, one_hop_neighborhoods, unique_hyperedges,
                    hyperedges, incidence_1, error, runs >>
    /\ UNCHANGED inputVars
    /\ UNCHANGED trainVars

(* The Network, optimizer and device cells: a fresh torch module is in     *)
(* training mode. From here on the two notebooks differ (the base model,   *)
(* the training loop).                                                     *)

NetworkCell ==
    /\ pc = "network"
    /\ notebook' \in Notebooks
    /\ out_channels' = NumUnique(y)
    /\ task_level' = TaskLevel(out_channels')
    /\ out_pool' = OutPool(task_level')
    /\ mode' = "train"
    /\ pc' = "loop"
    /\ UNCHANGED << params, grad, applied, epoch, it, ip, y_hat, loss,
                    reports, ops >>
    /\ UNCHANGED dataVars
    /\ UNCHANGED liftVars

----------------------------------------------------------------------------
(* The training cell, one action per statement.                            *)

\* "for epoch in range(...)": the next value, when there is one
ForEpoch ==
    /\ pc = "loop"
    /\ it < Len(EpochRange(notebook))
    /\ epoch' = EpochRange(notebook)[it + 1]
    /\ it' = it + 1
    /\ ip' = 1
    /\ ops' = << >>
    /\ pc' = "body"
    /\ UNCHANGED << mode, params, grad, applied, y_hat, loss, reports >>
    /\ UNCHANGED inputVars
    /\ UNCHANGED liftVars

\* the range is exhausted: the cell ends
LoopExit ==
    /\ pc = "loop"
    /\ it >= Len(EpochRange(notebook))
    /\ pc' = "done"
    /\ UNCHANGED inputVars
    /\ UNCHANGED liftVars
    /\ UNCHANGED trainVars

\* the statement about to run
Stmt ==
    IF pc = "body" /\ ip \in 1 .. Len(TrainBody(notebook))
    THEN TrainBody(notebook)[ip]
    ELSE IF pc = "report" /\ ip \in 1 .. Len(ReportBody)
    THEN ReportBody[ip]
    ELSE "none"

\* control moves to the next statement of the epoch, then to the test
Advance(stmt) ==
    /\ ops' = Append(ops, stmt)
    /\ IF ip < Len(TrainBody(notebook))
       THEN ip' = ip + 1 /\ pc' = pc
       ELSE ip' = 0 /\ pc' = "test"
    /\ UNCHANGED << epoch, it >>
    /\ UNCHANGED inputVars
    /\ UNCHANGED liftVars

\* "model.train()"
ModelTrain ==
    /\ Stmt = "train"
    /\ mode' = "train"
    /\ Advance("train")
    /\ UNCHANGED << params, grad, applied, y_hat, loss, reports >>

\* "optimizer.zero_grad()" / "opt.zero_grad()"
ZeroGrad ==
    /\ Stmt = "zero_grad"
    /\ grad' = << >>
    /\ Advance("zero_grad")
    /\ UNCHANGED << mode, params, applied, y_hat, loss, reports >>

\* "y_hat = model(x_0s, incidence_1)" of the training step
Forward ==
    /\ Stmt = "forward"
    /\ y_hat' = [params |-> params, mode |-> mode,
                 shape |-> NetworkForward(out_pool, num_nodes, out_channels)]
    /\ Advance("forward")
    /\ UNCHANGED << mode, params, grad, applied, loss, reports >>

\* "loss = loss_fn(y_hat[train_mask], y[train_mask])": any value; indexing
\* a result that has no row per node with the mask raises IndexError
Loss ==
    /\ Stmt = "loss"
    /\ IF MaskFits(y_hat.shape, num_nodes)
       THEN /\ \E l \in LossValues : loss' = l
            /\ Advance("loss")
       ELSE /\ error' = "IndexError"
            /\ pc' = "halted"
            /\ UNCHANGED << loss, ops, ip, epoch, it >>
            /\ UNCHANGED inputVars
            /\ UNCHANGED << edge_index, one_hop_neighborhoods,
                            unique_hyperedges, hyperedges, incidence_1, runs,
                            prev_hyperedges, prev_incidence >>
    /\ UNCHANGED << mode, params, grad, applied, y_hat, reports >>

\* "loss.backward()": the gradient of this epoch's loss is added to .grad
Backward ==
    /\ Stmt = "backward"
    /\ grad' = Append(grad, epoch)
    /\ Advance("backward")
    /\ UNCHANGED << mode, params, applied, y_hat, loss, reports >>

\* "optimizer.step()" / "opt.step()"
OptStep ==
    /\ Stmt = "step"
    /\ params' = params + 1
    /\ applied' = Append(applied, [epoch |-> epoch, grad |-> grad])
    /\ Advance("step")
    /\ UNCHANGED << mode, grad, y_hat, loss, reports >>

\* the test of the evaluation block holds
EnterReport ==
    /\ pc = "test"
    /\ ReportDue(epoch)
    /\ pc' = "report"
    /\ ip' = 1
    /\ UNCHANGED << mode, params, grad, applied, epoch, it, y_hat, loss,
                    reports, ops >>
    /\ UNCHANGED inputVars
    /\ UNCHANGED liftVars

\* the test fails: next iteration
SkipReport ==
    /\ pc = "test"
    /\ ~ReportDue(epoch)
    /\ pc' = "loop"
    /\ UNCHANGED inputVars
    /\ UNCHANGED liftVars
    /\ UNCHANGED trainVars

\* "model.eval()"
ModelEval ==
    /\ Stmt = "eval"
    /\ mode' = "eval"
    /\ ops' = Append(ops, "eval")
    /\ ip' = ip + 1
    /\ UNCHANGED << pc, params, grad, applied, epoch, it, y_hat, loss,
                    reports >>
    /\ UNCHANGED inputVars
    /\ UNCHANGED liftVars

\* "y_hat = model(x_0s, incidence_1)" of the evaluation block
EvalForward ==
    /\ Stmt = "eval_forward"
    /\ y_hat' = [params |-> params, mode |-> mode,
                 shape |-> NetworkForward(out_pool, num_nodes, out_channels)]
    /\ ops' = Append(ops, "eval_forward")
    /\ ip' = ip + 1
    /\ UNCHANGED << pc, mode, params, grad, applied, epoch, it, loss,
                    reports >>
    /\ UNCHANGED inputVars
    /\ UNCHANGED liftVars

\* the losses and accuracies on the masks, and the print
Report ==
    /\ Stmt = "report"
    /\ \E l \in LossValues : loss' = l
    /\ reports' = Append(reports,
                      [epoch |-> epoch, steps |-> params, y_hat |-> y_hat])
    /\ ops' = Append(ops, "report")
    /\ ip' = 0
    /\ pc' = "loop"
    /\ UNCHANGED << mode, params, grad, applied, epoch, it, y_hat >>
    /\ UNCHANGED inputVars
    /\ UNCHANGED liftVars

TrainNext ==
    \/ ForEpoch
    \/ LoopExit
    \/ ModelTrain
    \/ ZeroGrad
    \/ Forward
    \/ Loss
    \/ Backward
    \/ OptStep
    \/ EnterReport
    \/ SkipReport
    \/ ModelEval
    \/ EvalForward
    \/ Report

Next ==
    \/ LiftCell
    \/ IncidenceCell
    \/ RerunLifting
    \/ NetworkCell
    \/ TrainNext

Spec == Init /\ [][Next]_vars

SpecRing == InitRing /\ [][Next]_vars

SpecTask == InitTask /\ [][Next]_vars

----------------------------------------------------------------------------
(* Properties of the hypergraph lifting.                                   *)

\* the lifting cell has run at least once: hyperedges holds its result
Lifted == runs >= 1

\* the incidence cell has built its matrix
IncidenceBuilt == incidence_1.kind # "unset"

\* the members of hyperedge column c (0-based)
Members(c) == Range(hyperedges[c + 1])

HyperedgesNonEmpty == \A c \in 1 .. Len(hyperedges) : hyperedges[c] # << >>

NodesCovered ==
    \A n \in Nodes(num_nodes) :
        \E c \in 0 .. (Len(hyperedges) - 1) : n \in Members(c)

\* entry [r, c] of incidence_1, dense or sparse
Entry(r, c) ==
    IF incidence_1.kind = "dense" THEN incidence_1.dense[r][c]
    ELSE IF << r, c >> \in incidence_1.indices THEN 1 ELSE 0

\* C1: after the deduplication loop no two positions of the hyperedge list
\* hold the same sorted tuple.
C1_NoDuplicateHyperedges ==
    \A i, j \in 1 .. Len(hyperedges) :
        i # j => hyperedges[i] # hyperedges[j]

\* two nodes had the same neighbourhood and only one copy was kept, next to
\* a different hyperedge
C1_Witness ==
    /\ Lifted
    /\ Len(hyperedges) >= 2
    /\ Len(hyperedges) < num_nodes

\* C2: when the sparse incidence matrix is produced, every node is in some
\* hyperedge and every hyperedge is non-empty (no all-zero row, no all-zero
\* column); when that does not hold of the hyperedges, the cell fails and no
\* sparse matrix is produced.
C2_ProducedOnlyIfCovered ==
    /\ incidence_1.kind = "sparse" =>
          /\ HyperedgesNonEmpty
          /\ NodesCovered
          /\ \A r \in Nodes(incidence_1.rows) :
                 \E rc \in incidence_1.indices : rc[1] = r
          /\ \A c \in 0 .. (incidence_1.cols - 1) :
                 \E rc \in incidence_1.indices : rc[2] = c
    /\ (IncidenceBuilt /\ ~(HyperedgesNonEmpty /\ NodesCovered)) =>
          /\ pc = "halted"
          /\ error # ""
          /\ incidence_1.kind = "dense"

\* a sparse matrix was produced for a graph in which two nodes share a
\* neighbourhood
C2_Witness ==
    /\ incidence_1.kind = "sparse"
    /\ pc = "network"
    /\ Len(hyperedges) < num_nodes

\* C3: the matrix has num_nodes rows and one column per (distinct)
\* hyperedge, and entry [r, c] is 1 exactly when r is a member of
\* hyperedges[c], 0 otherwise.
C3_IncidenceIsMembership ==
    IncidenceBuilt =>
        /\ incidence_1.rows = num_nodes
        /\ incidence_1.cols = Len(hyperedges)
        /\ incidence_1.cols = Cardinality(Range(hyperedges))
        /\ \A r \in Nodes(num_nodes) : \A c \in 0 .. (Len(hyperedges) - 1) :
               Entry(r, c) = IF r \in Members(c) THEN 1 ELSE 0

\* a matrix with a hyperedge of two or more nodes and a zero entry
C3_Witness ==
    /\ incidence_1.kind = "sparse"
    /\ \E c \in 0 .. (Len(hyperedges) - 1) : Cardinality(Members(c)) >= 2
    /\ \E r \in Nodes(num_nodes) : \E c \in 0 .. (Len(hyperedges) - 1) :
           Entry(r, c) = 0

\* node n is the source of no entry of data.edge_index: the neighbourhood
\* collected for it is empty
NoNeighbours(n) ==
    \A i \in 1 .. Len(data_edge_index) : data_edge_index[i][1] # n

\* node n occurs in no entry of data.edge_index at all
Isolated(n) ==
    \A i \in 1 .. Len(data_edge_index) :
        data_edge_index[i][1] # n /\ data_edge_index[i][2] # n

\* C4: when some node has no neighbours, the run stops at the assertions of
\* the incidence cell ("Some hyperedges are empty") and nothing runs after
\* it: no sparse matrix, no model, no forward pass, no optimizer step.
C4_HaltsOnNodeWithoutNeighbours ==
    (\E n \in Nodes(num_nodes) : NoNeighbours(n)) =>
        /\ pc \in {"lift", "incidence", "halted"}
        /\ incidence_1.kind # "sparse"
        /\ mode = "none"
        /\ params = 0
        /\ applied = << >>
        /\ y_hat.mode = "none"
        /\ pc = "halted" =>
              /\ error = "Some hyperedges are empty"
              /\ ~ENABLED Next

\* the run has stopped on a graph with edges and an isolated node
C4_Witness ==
    /\ pc = "halted"
    /\ data_edge_index # << >>
    /\ \E n \in Nodes(num_nodes) : Isolated(n)

\* C5: for every entry (u, v) of the input edge list the neighbourhood
\* collected for u contains v and the one collected for v contains u.
C5_NeighbourhoodsUndirected ==
    Lifted =>
        \A i \in 1 .. Len(data_edge_index) :
            LET u == data_edge_index[i][1]
                v == data_edge_index[i][2]
            IN  /\ v \in Range(one_hop_neighborhoods[u + 1])
                /\ u \in Range(one_hop_neighborhoods[v + 1])

\* C6: no hyperedge holds a node index twice, and the nodes that have the
\* same set of neighbours contribute one hyperedge between them.
C6_HyperedgesAreNeighbourSets ==
    Lifted =>
        /\ \A c \in 1 .. Len(hyperedges) :
               Cardinality(Range(hyperedges[c])) = Len(hyperedges[c])
        /\ \A n \in Nodes(num_nodes) :
               Cardinality({ c \in 1 .. Len(hyperedges) :
                   Range(hyperedges[c]) = Range(one_hop_neighborhoods[n + 1]) })
                 = 1

\* C7: the lifting and incidence cells run a second time on the same edge
\* list give the same hyperedge list, in the same order, and the same
\* incidence matrix as the first time.
C7_RerunSameResult ==
    /\ runs = 2 => hyperedges = prev_hyperedges
    /\ (runs = 2 /\ pc \notin {"lift", "incidence"}) =>
          /\ pc # "halted"
          /\ incidence_1 = prev_incidence

\* both runs are complete, on a graph with several hyperedges of which one
\* has several members
C7_Witness ==
    /\ runs = 2
    /\ pc = "network"
    /\ Len(hyperedges) >= 2
    /\ \E c \in 1 .. Len(hyperedges) : Len(hyperedges[c]) >= 2

\* C8: the 5-node ring yields exactly 5 hyperedges, each of size 2, and an
\* incidence matrix whose row sums and column sums are all at least 1, so
\* both assertions pass and the sparse matrix is produced.
C8_RingScenario ==
    /\ Lifted =>
          /\ Len(hyperedges) = RingNodes
          /\ \A c \in 1 .. Len(hyperedges) : Len(hyperedges[c]) = 2
    /\ IncidenceBuilt =>
          /\ pc # "halted"
          /\ error = ""
          /\ incidence_1.kind = "sparse"
          /\ \A r \in Nodes(RingNodes) :
                 Cardinality({ rc \in incidence_1.indices : rc[1] = r }) >= 1
          /\ \A c \in 0 .. (RingNodes - 1) :
                 Cardinality({ rc \in incidence_1.indices : rc[2] = c }) >= 1

\* the ring, listed edge by edge and then in reverse, has passed both
\* assertions
C8_Witness ==
    /\ data_edge_index = BothDirections(RingEdges)
    /\ pc = "network"
    /\ incidence_1.kind = "sparse"

----------------------------------------------------------------------------
(* Properties of the training loops.                                       *)

\* the value of the loop variable in the first epoch
FirstEpoch == IF notebook = "unigcnii" THEN 0 ELSE 1

\* how far the training cell has come: the iteration, then the position in
\* it (the epoch's statements, the test, the evaluation block, the end of
\* the iteration)
Elapsed ==
    it * 100
      + (CASE pc = "body" -> ip
           [] pc = "test" -> 20
           [] pc = "report" -> 20 + ip
           [] pc = "loop" -> 99
           [] OTHER -> 100)

\* one optimizer step per epoch so far, in the order of the range; at the
\* end exactly num_epochs of them; the cell is never stuck before its end
C9_Counts ==
    /\ params = Len(applied)
    /\ Len(applied) <= num_epochs
    /\ Len(applied) \in {it, it - 1}
    /\ \A i \in 1 .. Len(applied) : applied[i].epoch = FirstEpoch + i - 1
    /\ pc \in {"test", "report"} \/ (pc = "loop" /\ it >= 1)
          => Len(applied) = it
    /\ pc = "done" => it = num_epochs /\ params = num_epochs
    /\ (mode # "none" /\ pc # "done") => ENABLED Next

\* every step of the training cell moves it forward, towards a fixed end
C9_Progress ==
    mode # "none" =>
        /\ Elapsed' > Elapsed
        /\ Elapsed' <= (num_epochs + 1) * 100

\* C9: the training loop ends after exactly num_epochs = 5 epochs with one
\* optimizer step in each, whatever the losses are: it always moves forward,
\* is never stuck, and no epoch is skipped, repeated or cut short.
C9_FiveEpochsThenDone == [][C9_Counts /\ C9_Counts' /\ C9_Progress]_vars

\* the loop has ended after losses of both kinds
C9_Witness ==
    /\ pc = "done"
    /\ notebook = "unisage"
    /\ params = num_epochs
    /\ loss = 1

\* the forward, loss, backward, optimizer and reset steps among a sequence
\* of statements
StepsOf(seq) ==
    SelectSeq(seq, LAMBDA o :
        o \in {"forward", "loss", "backward", "step", "zero_grad"})

\* the statements of the current epoch have all run
EpochBodyDone ==
    \/ pc \in {"test", "report"}
    \/ pc \in {"loop", "done"} /\ it >= 1

\* C10 as stated: in both notebooks every epoch runs forward pass, loss,
\* backpropagation, optimizer step, gradient reset, in this order.
C10_ResetAfterStepInBoth ==
    EpochBodyDone =>
        StepsOf(ops) = << "forward", "loss", "backward", "step", "zero_grad" >>

\* C10 as amended: in the UniGCNII notebook every epoch runs forward pass,
\* loss, backpropagation, optimizer step, gradient reset, in this order; in
\* the UniSAGE notebook the gradient reset comes first (reset, forward pass,
\* loss, backpropagation, optimizer step) and nothing resets the gradient
\* after the optimizer step of the same epoch.
C10_EpochOrder ==
    EpochBodyDone =>
        StepsOf(ops) =
            IF notebook = "unigcnii"
            THEN << "forward", "loss", "backward", "step", "zero_grad" >>
            ELSE << "zero_grad", "forward", "loss", "backward", "step" >>

\* the second epoch of the UniSAGE loop has run its statements
C10_Witness ==
    /\ pc = "test"
    /\ notebook = "unisage"
    /\ it = 2

\* the test of the evaluation block has been decided for every epoch run
\* so far, and a due report has been printed
ReportsSettled == mode # "none" /\ pc \in {"loop", "done"}

\* the numbers of completed optimizer steps after which a report was made
ReportedAfter == { reports[i].steps : i \in 1 .. Len(reports) }

\* C11 as stated: in both notebooks a report follows a training step exactly
\* when the number of optimizer steps completed is a positive multiple of
\* test_interval, so the only report of a run follows the fifth step.
C11_ReportEveryFifthStepInBoth ==
    ReportsSettled =>
        /\ ReportedAfter = { k \in 1 .. params : k % test_interval = 0 }
        /\ pc = "done" => ReportedAfter = {test_interval}

\* the step counts after which notebook nb reports: its loop variable counts
\* from 0 in the UniGCNII notebook and from 1 in the UniSAGE notebook
DueSteps(nb, upTo) ==
    IF nb = "unigcnii"
    THEN { k \in 1 .. upTo : (k - 1) % test_interval = 0 }
    ELSE { k \in 1 .. upTo : k % test_interval = 0 }

\* C11 as amended: a report is made when the loop variable is a multiple of
\* test_interval. In the UniSAGE notebook (epochs 1..5) that is after the
\* k-th optimizer step for k a positive multiple of test_interval: the one
\* report of the run follows the fifth step. In the UniGCNII notebook
\* (epochs 0..4) that is after the k-th step for k - 1 a multiple of
\* test_interval: the one report of the run follows the first step.
C11_ReportWhenEpochIsMultiple ==
    ReportsSettled =>
        /\ ReportedAfter = DueSteps(notebook, params)
        /\ Len(reports) = Cardinality(ReportedAfter)
        /\ \A i \in 1 .. Len(reports) :
               reports[i].epoch % test_interval = 0
        /\ pc = "done" =>
              /\ Len(reports) = 1
              /\ reports[1].steps = IF notebook = "unigcnii" THEN 1
                                    ELSE test_interval

\* the UniGCNII run is over and its one report followed the first step
C11_Witness ==
    /\ pc = "done"
    /\ notebook = "unigcnii"
    /\ Len(reports) = 1
    /\ reports[1].steps = 1

\* C13: the forward pass whose loss is backpropagated runs in training
\* mode, the forward pass whose metrics are reported runs in evaluation
\* mode, and the evaluation mode a report sets is gone before the training
\* pass of the next epoch.
C13_ModesOfForwardPasses ==
    /\ Stmt = "forward" => mode = "train"
    /\ Stmt \in {"loss", "backward"} => y_hat.mode = "train"
    /\ Stmt = "eval_forward" => mode = "eval"
    /\ Stmt = "report" => y_hat.mode = "eval"
    /\ \A i \in 1 .. Len(reports) : reports[i].y_hat.mode = "eval"

\* a loss is about to be backpropagated in an epoch that follows a report
C13_Witness ==
    /\ Stmt = "backward"
    /\ Len(reports) >= 1
    /\ reports[Len(reports)].epoch < epoch
    /\ y_hat.mode = "train"

\* C15: with the reset after the step (UniGCNII) or before the forward pass
\* (UniSAGE), every optimizer step applies the gradient of exactly one
\* backward pass, that of its own epoch; no earlier epoch's gradient is
\* still accumulated when a step runs.
C15_StepAppliesOwnEpochGradient ==
    /\ Stmt = "step" => grad = << epoch >>
    /\ Stmt = "backward" => grad = << >>
    /\ \A i \in 1 .. Len(applied) : applied[i].grad = << applied[i].epoch >>

\* the third optimizer step of the UniSAGE loop, whose reset comes first,
\* has been applied
C15_Witness ==
    /\ notebook = "unisage"
    /\ Len(applied) = 3
    /\ applied[3].grad = << 3 >>
    /\ pc = "test"

\* every entry of data.edge_index has its reverse in the list
Symmetric ==
    \A i \in 1 .. Len(data_edge_index) :
        << data_edge_index[i][2], data_edge_index[i][1] >>
            \in Range(data_edge_index)

\* node n is a member of no hyperedge
InNoHyperedge(n) ==
    \A c \in 0 .. (Len(hyperedges) - 1) : n \notin Members(c)

\* C16: for a symmetric edge list "Some nodes are not in any hyperedges" is
\* never raised: a node that is in no hyperedge has no neighbours, so the
\* empty hyperedge exists and "Some hyperedges are empty" is raised first.
\* The second assertion fails only for a list holding an edge without its
\* reverse.
C16_SecondAssertionNeedsOneWayEdge ==
    /\ error = "Some nodes are not in any hyperedges" => ~Symmetric
    /\ (Symmetric /\ Lifted) =>
          \A n \in Nodes(num_nodes) :
              InNoHyperedge(n) =>
                  /\ NoNeighbours(n)
                  /\ << >> \in Range(hyperedges)
    /\ (Symmetric /\ IncidenceBuilt
          /\ \E n \in Nodes(num_nodes) : InNoHyperedge(n)) =>
          /\ pc = "halted"
          /\ error = "Some hyperedges are empty"

\* a symmetric list with edges and a node that is in no hyperedge has
\* stopped the run
C16_Witness ==
    /\ Symmetric
    /\ data_edge_index # << >>
    /\ \E n \in Nodes(num_nodes) : InNoHyperedge(n)
    /\ pc = "halted"
    /\ error = "Some hyperedges are empty"

----------------------------------------------------------------------------
(* C12. The pooling of Network.forward and the task level.                 *)

\* C12: once the network is built, the task is graph-level exactly when the
\* labels have a single distinct class and the network pools exactly when
\* the task is graph-level; every result of a forward pass is then a single
\* vector of out_channels scores when the task is graph-level and has one
\* row of out_channels scores per node when it is node-level.
C12_PoolsIffGraphLevel ==
    /\ mode # "none" =>
          /\ (task_level = "graph") <=> (\A m, n \in Nodes(num_nodes) : y[m] = y[n])
          /\ task_level \in {"graph", "node"}
          /\ out_pool <=> (task_level = "graph")
    /\ y_hat.mode # "none" =>
          /\ task_level = "graph" => y_hat.shape = << out_channels >>
          /\ task_level = "node" => y_hat.shape = << num_nodes, out_channels >>

\* a graph-level task has made a forward pass whose result is pooled
C12_Witness ==
    /\ task_level = "graph"
    /\ y_hat.mode = "train"
    /\ y_hat.shape = << 1 >>

----------------------------------------------------------------------------
(* C14. What the loop and its report block leave alone.                    *)

C14_Frame ==
    /\ params' # params => pc = "body" /\ Stmt = "step"
    /\ pc = "report" => params' = params /\ grad' = grad
    /\ mode # "none" =>
          /\ incidence_1' = incidence_1
          /\ y' = y
          /\ train_mask' = train_mask
          /\ val_mask' = val_mask
          /\ test_mask' = test_mask

\* C14: the parameters change only in the optimizer step of the loop body;
\* no statement of the evaluation/report block changes the parameters or the
\* accumulated gradients; and no step taken once the network is built
\* changes the incidence matrix, the labels or the three masks.
C14_OnlyStepChangesParameters == [][C14_Frame]_vars

\* a report block has run to its end after optimizer steps, and the
\* parameters are still the ones the evaluation forward pass used
C14_Witness ==
    /\ pc = "loop"
    /\ Len(reports) = 1
    /\ params > 0
    /\ y_hat.mode = "eval"
    /\ y_hat.params = params
    /\ grad = << >>
    /\ incidence_1.kind = "sparse"

============================================================================
